---- MODULE Spec2Model ----
(***************************************************************************)
(* Model of src/fetch.c (libgit2): filter_wants and git_fetch_negotiate.   *)
(*                                                                         *)
(* The state is the remote (its transport's advertised heads, its ref      *)
(* list, its fetch refspec), the repository's local ref store, the locals  *)
(* of the two functions, the revision walker, and a log of the transport   *)
(* calls made in the current call of git_fetch_negotiate.                  *)
(*                                                                         *)
(* A ref name is a pair <<namespace, leaf>>; its length in characters is   *)
(* NameLen.  An object id is a number 1..MaxOid; 0 is the zeroed id.  The  *)
(* commit graph is the chain MaxOid -> ... -> 2 -> 1 (parent of n is n-1). *)
(***************************************************************************)
EXTENDS Integers, Sequences, FiniteSets, TLC

\* ---------------------------------------------------------------- bounds
MaxHeads == 2
MaxOid == 2

\* ------------------------------------------------- error codes and enums
\* git2/errors.h values, as compared by fetch.c
GIT_SUCCESS == 0
GIT_ERROR == -1
GIT_ENOTFOUND == -3
GIT_ENOMEM == -4
GIT_EOSERR == -5
GIT_EINVALIDREFNAME == -15
GIT_EREVWALKOVER == -20
GIT_ENOMATCH == -31

\* git_whn: the classification written at fetch.c:115
GIT_WHN_NONE == 0
GIT_WHN_WANT == 2

\* char local[1024], fetch.c:75
LocalBufSize == 1024

\* The codes an external call may fail with (GIT_ERROR itself, and one below it)
FailCodes == {GIT_ERROR, GIT_EOSERR}

\* ------------------------------------------------------------------ data
Oids == 1..MaxOid
ZeroOid == 0
NoRef == 0

HeadsNs == "refs/heads/"
TagsNs == "refs/tags/"
RemotesNs == "refs/remotes/origin/"

NsLen(ns) == IF ns = HeadsNs THEN 11 ELSE IF ns = TagsNs THEN 10 ELSE 20
LeafLen(leaf) == IF leaf = "long" THEN 1010 ELSE 1
NameLen(name) == NsLen(name[1]) + LeafLen(name[2])

RemoteNames == {<<HeadsNs, "a">>, <<HeadsNs, "b">>, <<HeadsNs, "long">>, <<TagsNs, "a">>}
\* the local refs the store may hold: one tracking ref and one local branch
LocalNames == {<<RemotesNs, "a">>, <<HeadsNs, "a">>}
LocalOrder == << <<HeadsNs, "a">>, <<RemotesNs, "a">> >>

NewHead(name, oid) ==
    [name |-> name, oid |-> oid, local |-> 0, loid |-> ZeroOid, type |-> GIT_WHN_NONE]

RECURSIVE SeqsUpTo(_, _)
SeqsUpTo(S, n) ==
    IF n = 0 THEN {<<>>}
    ELSE LET shorter == SeqsUpTo(S, n - 1)
         IN shorter \cup {Append(s, x) : s \in {t \in shorter : Len(t) = n - 1}, x \in S}

DistinctNames(ad) == \A j, k \in 1..Len(ad) : j # k => ad[j].name # ad[k].name

\* The store can hold a tracking ref only for refs/heads/a, so only that head's
\* oid is ever compared with a local one; the other heads are advertised at 1.
HeadChoices ==
    {NewHead(<<HeadsNs, "a">>, o) : o \in Oids}
        \cup {NewHead(n, 1) : n \in RemoteNames \ {<<HeadsNs, "a">>}}

Advertisements ==
    {ad \in SeqsUpTo(HeadChoices, MaxHeads) : DistinctNames(ad)}

Stores == [LocalNames -> Oids \cup {NoRef}]

VARIABLES
    heads, store, hasSpec, remote_refs,
    pc, i, list, error, ret,
    strs, walk, pending, created, released,
    tlog, sendFailed,
    entryRefs, wantHist, haveHist, yielded, pushed, walkFailAt, ev, entryHeads

vars == <<heads, store, hasSpec, remote_refs, pc, i, list, error, ret,
          strs, walk, pending, created, released, tlog, sendFailed,
          entryRefs, wantHist, haveHist, yielded, pushed, walkFailAt, ev, entryHeads>>

Init ==
    /\ heads \in Advertisements
    /\ store \in Stores
    /\ hasSpec \in BOOLEAN
    /\ remote_refs = <<>>
    /\ pc = "idle"
    /\ i = 0
    /\ list = <<>>
    /\ error = GIT_SUCCESS
    /\ ret = GIT_SUCCESS
    /\ strs = <<>>
    /\ walk = "uninit"
    /\ pending = {}
    /\ created = 0
    /\ released = 0
    /\ tlog = <<>>
    /\ sendFailed = FALSE
    /\ entryRefs = <<>>
    /\ wantHist = <<>>
    /\ haveHist = <<>>
    /\ yielded = <<>>
    /\ pushed = <<>>
    /\ walkFailAt = -1
    /\ ev = {}
    /\ entryHeads = heads


\* ------------------------------------------------- consumed capabilities
\* git_refspec_src_match with the refspec refs/heads/*:refs/remotes/origin/*
git_refspec_src_match(name) ==
    IF name[1] = HeadsNs THEN GIT_SUCCESS ELSE GIT_ENOMATCH

\* git_refspec_transform into a buffer of outlen characters (with the NUL)
git_refspec_transform(outlen, name) ==
    LET local == <<RemotesNs, name[2]>>
    IN IF outlen <= NameLen(local)
       THEN [rc |-> GIT_EINVALIDREFNAME, local |-> local]
       ELSE [rc |-> GIT_SUCCESS, local |-> local]

\* git_reference_lookup: the out pointer is NULL unless the ref is found
git_reference_lookup(st, name) ==
    IF name \in DOMAIN st /\ st[name] # NoRef
    THEN [rc |-> GIT_SUCCESS, ref |-> st[name]]
    ELSE [rc |-> GIT_ENOTFOUND, ref |-> NoRef]

\* git_reference_listall: the names of the refs the store holds
RECURSIVE FilterSeq(_, _)
FilterSeq(s, st) ==
    IF s = <<>> THEN <<>>
    ELSE IF st[Head(s)] # NoRef THEN <<Head(s)>> \o FilterSeq(Tail(s), st)
         ELSE FilterSeq(Tail(s), st)

git_reference_listall(st) == FilterSeq(LocalOrder, st)

\* the commits reachable from oid along the chain
Reachable(oid) == 1..oid

\* the comparator reads the oid, not the type
whn_cmp_ByOid(hs, a, b) == hs[b].oid - hs[a].oid

\* whn_cmp(a, b): headb->type - heada->type
whn_cmp(hs, a, b) == hs[b].type - hs[a].type

\* git_vector_sort: a stable insertion sort of the vector under whn_cmp
RECURSIVE InsertSorted(_, _, _)
InsertSorted(hs, sorted, x) ==
    IF sorted = <<>> THEN <<x>>
    ELSE IF whn_cmp(hs, x, Head(sorted)) < 0
         THEN <<x>> \o sorted
         ELSE <<Head(sorted)>> \o InsertSorted(hs, Tail(sorted), x)

RECURSIVE git_vector_sort(_, _)
git_vector_sort(hs, v) ==
    IF v = <<>> THEN <<>>
    ELSE InsertSorted(hs, git_vector_sort(hs, SubSeq(v, 1, Len(v) - 1)), v[Len(v)])

\* ---------------------------------------------------------- filter_wants
\* fetch.c:59, 63, 149: error < GIT_SUCCESS
Failed(e) == e < GIT_SUCCESS

\* fetch.c:83: the matcher failed
MatchFailed(e) == e < GIT_SUCCESS

\* the transform's result is not tested
TransformFailed_Never(e) == FALSE

\* fetch.c:90: the transform failed
TransformFailed(e) == e < GIT_SUCCESS

\* fetch.c:117: the insert into the vector failed
InsertFailed(e) == e < GIT_SUCCESS

\* the lookup error is never fatal
LookupFatal_Never(e) == FALSE

\* fetch.c:97: a lookup error other than not-found is fatal
LookupFatal(e) == e < GIT_SUCCESS /\ e # GIT_ENOTFOUND

\* the local oid is compared with the head's loid field
SameOid_WrongField(head, ref) == head.loid = ref

\* a head already marked local counts as up to date
SameOid_OrMarked(head, ref) == head.oid = ref \/ head.local = 1

\* fetch.c:103: !git_oid_cmp(&head->oid, git_reference_oid(ref))
SameOid(head, ref) == head.oid = ref

\* the head's own oid is copied into loid
MarkLocal_WrongOid(head, ref) == [head EXCEPT !.local = 1, !.loid = head.oid]

\* fetch.c:106-107: head->local = 1; git_oid_cpy(&head->loid, ...)
MarkLocal(head, ref) == [head EXCEPT !.local = 1, !.loid = ref]

\* fetch.c:115: head->type = GIT_WHN_WANT
MarkWant(head) == [head EXCEPT !.type = GIT_WHN_WANT]

\* the heads a ref list points at, as they are now
Snapshot(refs, hs) == [k \in 1..Len(refs) |-> hs[refs[k]]]

Call ==
    /\ pc \in {"idle", "returned"}
    /\ pc' = "fw_init"
    /\ i' = 0
    /\ list' = <<>>
    /\ error' = GIT_SUCCESS
    /\ strs' = <<>>
    /\ walk' = "uninit"
    /\ pending' = {}
    /\ created' = 0
    /\ released' = 0
    /\ tlog' = <<>>
    /\ sendFailed' = FALSE
    /\ entryRefs' = remote_refs
    /\ yielded' = <<>>
    /\ pushed' = <<>>
    /\ walkFailAt' = -1
    /\ ev' = {}
    /\ entryHeads' = heads
    /\ ret' = GIT_SUCCESS
    /\ UNCHANGED <<heads, store, hasSpec, remote_refs, wantHist, haveHist>>

\* fetch.c:58-60: git_vector_init; on failure return at once
FW_VectorInit ==
    /\ pc = "fw_init"
    /\ \E e \in {GIT_SUCCESS, GIT_ENOMEM} :
         /\ error' = e
         /\ pc' = IF Failed(e) THEN "neg_filtered" ELSE "fw_ls"
    /\ UNCHANGED <<heads, store, hasSpec, remote_refs, i, list, ret, strs, walk,
                   pending, created, released, tlog, sendFailed, entryRefs,
                   wantHist, haveHist, yielded, pushed, walkFailAt, ev, entryHeads>>

\* fetch.c:62-66: git_transport_ls
FW_TransportLs ==
    /\ pc = "fw_ls"
    /\ tlog' = Append(tlog, [op |-> "ls", arg |-> <<>>])
    /\ \E e \in {GIT_SUCCESS} \cup FailCodes :
         /\ error' = e
         /\ pc' = IF Failed(e) THEN "fw_cleanup" ELSE "fw_spec"
    /\ UNCHANGED <<heads, store, hasSpec, remote_refs, i, list, ret, strs, walk,
                   pending, created, released, sendFailed, entryRefs,
                   wantHist, haveHist, yielded, pushed, walkFailAt, ev, entryHeads>>

\* the missing refspec is not tested
SpecMissing_Never(configured) == FALSE

\* fetch.c:69: spec == NULL
SpecMissing(configured) == ~configured

\* fetch.c:68-72: git_remote_fetchspec; NULL is a GIT_ERROR
FW_Fetchspec ==
    /\ pc = "fw_spec"
    /\ IF SpecMissing(hasSpec)
       THEN /\ pc' = "fw_cleanup"
            /\ i' = i
            /\ error' = GIT_ERROR
       ELSE /\ pc' = "fw_loop"
            /\ i' = 1
            /\ error' = error
    /\ ev' = ev \cup (IF hasSpec THEN {} ELSE {"no_spec"})
    /\ UNCHANGED <<heads, store, hasSpec, remote_refs, list, ret, strs, walk,
                   pending, created, released, tlog, sendFailed, entryRefs,
                   wantHist, haveHist, yielded, pushed, walkFailAt, entryHeads>>

\* the loop body with head->local and head->type written before the oids are
\* compared
FilterHead_MarkBeforeCompare(head, m, tr, lk, ins) ==
    IF m = GIT_ENOMATCH
    THEN [go |-> "continue", error |-> m, head |-> head, want |-> FALSE]
    ELSE IF MatchFailed(m)
    THEN [go |-> "cleanup", error |-> m, head |-> head, want |-> FALSE]
    ELSE IF TransformFailed(tr.rc)
    THEN [go |-> "cleanup", error |-> tr.rc, head |-> head, want |-> FALSE]
    ELSE IF LookupFatal(lk.rc)
    THEN [go |-> "cleanup", error |-> lk.rc, head |-> head, want |-> FALSE]
    ELSE LET h1 == IF lk.ref # NoRef THEN MarkLocal(head, lk.ref) ELSE head
             h2 == MarkWant(h1)
         IN IF lk.ref # NoRef /\ SameOid(head, lk.ref)
            THEN [go |-> "continue", error |-> lk.rc, head |-> h2, want |-> FALSE]
            ELSE IF InsertFailed(ins)
            THEN [go |-> "cleanup", error |-> ins, head |-> h2, want |-> FALSE]
            ELSE [go |-> "continue", error |-> ins, head |-> h2, want |-> TRUE]

\* fetch.c:79-118: the body of the loop for one head, given what the matcher
\* (m), the transform (tr), the lookup (lk) and the vector insert (ins) return
FilterHead(head, m, tr, lk, ins) ==
    IF m = GIT_ENOMATCH
    THEN [go |-> "continue", error |-> m, head |-> head, want |-> FALSE]
    ELSE IF MatchFailed(m)
    THEN [go |-> "cleanup", error |-> m, head |-> head, want |-> FALSE]
    ELSE IF TransformFailed(tr.rc)
    THEN [go |-> "cleanup", error |-> tr.rc, head |-> head, want |-> FALSE]
    ELSE IF LookupFatal(lk.rc)
    THEN [go |-> "cleanup", error |-> lk.rc, head |-> head, want |-> FALSE]
    ELSE IF lk.ref # NoRef /\ SameOid(head, lk.ref)
    THEN [go |-> "continue", error |-> lk.rc, head |-> head, want |-> FALSE]
    ELSE LET h1 == IF lk.ref # NoRef THEN MarkLocal(head, lk.ref) ELSE head
             h2 == MarkWant(h1)
         IN IF InsertFailed(ins)
            THEN [go |-> "cleanup", error |-> ins, head |-> h2, want |-> FALSE]
            ELSE [go |-> "continue", error |-> ins, head |-> h2, want |-> TRUE]

\* the head's oid is written to the local ref
StoreAfterHead_Update(st, name, head) ==
    IF name \in DOMAIN st THEN [st EXCEPT ![name] = head.oid] ELSE st

\* fetch.c:95-118: the local ref is looked up and read, never written
StoreAfterHead(st, name, head) == st

\* fetch.c:74-119: one iteration of the loop over the advertised heads
FW_Head ==
    /\ pc = "fw_loop"
    /\ i <= Len(heads)
    /\ LET head == heads[i]
           tr == git_refspec_transform(LocalBufSize, head.name)
       IN \E m \in {git_refspec_src_match(head.name)} \cup FailCodes,
             lk \in {git_reference_lookup(store, tr.local)}
                      \cup {[rc |-> e, ref |-> NoRef] : e \in FailCodes},
             ins \in {GIT_SUCCESS, GIT_ENOMEM} :
            LET r == FilterHead(head, m, tr, lk, ins)
                reached == m = GIT_SUCCESS
            IN /\ heads' = [heads EXCEPT ![i] = r.head]
               /\ store' = IF r.want THEN StoreAfterHead(store, tr.local, r.head) ELSE store
               /\ error' = r.error
               /\ list' = IF r.want THEN Append(list, i) ELSE list
               /\ i' = IF r.go = "continue" THEN i + 1 ELSE i
               /\ pc' = IF r.go = "continue" THEN "fw_loop" ELSE "fw_cleanup"
               /\ ev' = ev \cup (IF reached /\ tr.rc # GIT_SUCCESS THEN {"transform_err"} ELSE {})
                           \cup (IF reached /\ tr.rc = GIT_SUCCESS /\ lk.rc \in FailCodes
                                 THEN {"lookup_err"} ELSE {})
    /\ UNCHANGED <<hasSpec, remote_refs, ret, strs, walk,
                   pending, created, released, tlog, sendFailed, entryRefs,
                   wantHist, haveHist, yielded, pushed, walkFailAt, entryHeads>>

\* fetch.c:121-125: sort, hand the vector to the remote, return GIT_SUCCESS
FW_Finish ==
    /\ pc = "fw_loop"
    /\ i > Len(heads)
    /\ LET sorted == git_vector_sort(heads, list)
       IN /\ list' = sorted
          /\ remote_refs' = sorted
          /\ wantHist' = <<Snapshot(sorted, heads)>> \o (IF wantHist = <<>> THEN <<>> ELSE <<wantHist[1]>>)
    /\ error' = GIT_SUCCESS
    /\ ev' = ev \cup {"filter_ok"}
    /\ pc' = "neg_filtered"
    /\ UNCHANGED <<heads, store, hasSpec, i, ret, strs, walk,
                   pending, created, released, tlog, sendFailed, entryRefs,
                   haveHist, yielded, pushed, walkFailAt, entryHeads>>

\* fetch.c:127-129: cleanup: git_vector_free(&list); return error
FW_Cleanup ==
    /\ pc = "fw_cleanup"
    /\ list' = <<>>
    /\ pc' = "neg_filtered"
    /\ UNCHANGED <<heads, store, hasSpec, remote_refs, i, error, ret, strs, walk,
                   pending, created, released, tlog, sendFailed, entryRefs,
                   wantHist, haveHist, yielded, pushed, walkFailAt, ev, entryHeads>>

\* --------------------------------------------------- git_fetch_negotiate
\* fetch.c:163, 167, 174, 180: error < GIT_ERROR
NegFailed(e) == e < GIT_ERROR

\* the have identifiers the transport has been sent, in order
HaveArgs(log) ==
    LET hs == SelectSeq(log, LAMBDA e : e.op = "send_have")
    IN [k \in 1..Len(hs) |-> hs[k].arg[1]]

\* the haves of the last two calls that ended with no failure of any step
RecordHaves(hist, seq, events) ==
    IF events \ {"walk_over"} = {"filter_ok"}
    THEN <<seq>> \o (IF hist = <<>> THEN <<>> ELSE <<hist[1]>>)
    ELSE hist

\* the emptiness test reads the ref list as it was before filter_wants
NothingWanted_AtEntry(refs) == Len(entryRefs) = 0

\* the empty want list is not tested
NothingWanted_Never(refs) == FALSE

\* fetch.c:153: list->len == 0
NothingWanted(refs) == Len(refs) = 0

\* the want list never reaches the transport
SendLog_NoWants(log, op, arg) ==
    IF op = "send_wants" THEN log ELSE Append(log, [op |-> op, arg |-> arg])

\* fetch.c:160, 188, 194, 195: a transport call, as the transport sees it
SendLog(log, op, arg) == Append(log, [op |-> op, arg |-> arg])

\* the sentinel is not translated
TranslateOver_Kept(e) == e

\* fetch.c:190-191: exhaustion is turned into success
TranslateOver(e) == IF e = GIT_EREVWALKOVER THEN GIT_SUCCESS ELSE e

\* git_revwalk_push: the walker will yield everything reachable from oid
git_revwalk_push(pend, oid) == pend \cup Reachable(oid)

\* git_revwalk_next: the newest pending commit
NewestOf(pend) == CHOOSE o \in pend : \A q \in pend : q <= o

\* git_revwalk_free: releases a walker; anything else is no walker to release
git_revwalk_free(w) == IF w = "live" THEN "freed" ELSE "badfree"

\* the cleanup label does not free the walker
CleanupWalk_Omitted(w) == w

\* fetch.c:197-198: cleanup: git_revwalk_free(walk)
CleanupWalk(w) == git_revwalk_free(w)

\* fetch.c:148-160: the result of filter_wants, the empty want list, send_wants
Neg_CheckFilter ==
    /\ pc = "neg_filtered"
    /\ IF Failed(error)
       THEN /\ pc' = "returned"
            /\ ret' = error
            /\ UNCHANGED <<tlog, sendFailed, haveHist>>
       ELSE IF NothingWanted(remote_refs)
       THEN /\ pc' = "returned"
            /\ ret' = GIT_SUCCESS
            /\ haveHist' = RecordHaves(haveHist, HaveArgs(tlog), ev)
            /\ UNCHANGED <<tlog, sendFailed>>
       ELSE /\ tlog' = SendLog(tlog, "send_wants", remote_refs)
            /\ \E ok \in BOOLEAN : sendFailed' = (sendFailed \/ ~ok)
            /\ pc' = "neg_listall"
            /\ ret' = ret
            /\ haveHist' = haveHist
    /\ UNCHANGED <<heads, store, hasSpec, remote_refs, i, list, error, strs, walk,
                   pending, created, released, entryRefs,
                   wantHist, yielded, pushed, walkFailAt, ev, entryHeads>>

\* fetch.c:162-164: git_reference_listall.  A failure with GIT_ERROR passes the
\* test; refs is then what the callee left: an empty array, or nothing usable.
Neg_ListAll ==
    /\ pc = "neg_listall"
    /\ \E e \in {GIT_SUCCESS} \cup FailCodes :
         /\ error' = e
         /\ ev' = ev \cup (IF e # GIT_SUCCESS THEN {"listall_err"} ELSE {})
         /\ IF NegFailed(e)
            THEN /\ pc' = "returned"
                 /\ ret' = e
                 /\ strs' = strs
            ELSE IF e = GIT_SUCCESS
            THEN /\ pc' = "neg_new"
                 /\ ret' = ret
                 /\ strs' = git_reference_listall(store)
            ELSE /\ pc' \in {"neg_new", "crashed"}
                 /\ ret' = ret
                 /\ strs' = <<>>
    /\ UNCHANGED <<heads, store, hasSpec, remote_refs, i, list, walk,
                   pending, created, released, tlog, sendFailed, entryRefs,
                   wantHist, haveHist, yielded, pushed, walkFailAt, entryHeads>>

\* fetch.c:166-170: git_revwalk_new; walk is set only when it succeeds
Neg_RevwalkNew ==
    /\ pc = "neg_new"
    /\ \E e \in {GIT_SUCCESS} \cup FailCodes :
         /\ error' = e
         /\ ev' = ev \cup (IF e # GIT_SUCCESS THEN {"new_err"} ELSE {})
         /\ walk' = IF e = GIT_SUCCESS THEN "live" ELSE walk
         /\ created' = IF e = GIT_SUCCESS THEN created + 1 ELSE created
         /\ IF NegFailed(e)
            THEN /\ pc' = "neg_cleanup"
                 /\ i' = i
            ELSE /\ pc' = IF Len(strs) = 0 THEN "neg_walk" ELSE "neg_seed"
                 /\ i' = 1
    /\ UNCHANGED <<heads, store, hasSpec, remote_refs, list, ret, strs,
                   pending, released, tlog, sendFailed, entryRefs,
                   wantHist, haveHist, yielded, pushed, walkFailAt, entryHeads>>

\* fetch.c:172-185: one iteration of the seeding loop: lookup, then push
Neg_Seed ==
    /\ pc = "neg_seed"
    /\ i <= Len(strs)
    /\ \E lk \in {git_reference_lookup(store, strs[i])}
                   \cup {[rc |-> e, ref |-> NoRef] : e \in FailCodes},
          p \in {GIT_SUCCESS} \cup FailCodes :
         LET nextpc == IF i + 1 > Len(strs) THEN "neg_walk" ELSE "neg_seed"
         IN IF NegFailed(lk.rc)
            THEN \* 174-177
                 /\ error' = lk.rc
                 /\ ev' = ev \cup {"seed_lookup_err"}
                 /\ pc' = "neg_cleanup"
                 /\ UNCHANGED <<i, pending, pushed>>
            ELSE IF lk.ref = NoRef \/ walk # "live"
            THEN \* 179: git_reference_oid(NULL), or a push on no walker
                 /\ error' = lk.rc
                 /\ ev' = ev \cup (IF lk.rc # GIT_SUCCESS THEN {"seed_lookup_err"} ELSE {})
                 /\ pc' = "crashed"
                 /\ UNCHANGED <<i, pending, pushed>>
            ELSE /\ error' = p
                 /\ ev' = ev \cup (IF p # GIT_SUCCESS THEN {"push_err"} ELSE {})
                 /\ IF NegFailed(p)
                    THEN /\ pc' = "neg_cleanup"
                         /\ UNCHANGED <<i, pending, pushed>>
                    ELSE /\ pc' = nextpc
                         /\ i' = i + 1
                         /\ pending' = IF p = GIT_SUCCESS
                                       THEN git_revwalk_push(pending, lk.ref)
                                       ELSE pending
                         /\ pushed' = IF p = GIT_SUCCESS
                                      THEN Append(pushed, lk.ref)
                                      ELSE pushed
    /\ UNCHANGED <<heads, store, hasSpec, remote_refs, list, ret, strs, walk,
                   created, released, tlog, sendFailed, entryRefs,
                   wantHist, haveHist, yielded, walkFailAt, entryHeads>>

\* fetch.c:187-189: one git_revwalk_next, and the send_have of what it yields
Neg_WalkNext ==
    /\ pc = "neg_walk"
    /\ IF walk # "live"
       THEN /\ pc' = "crashed"
            /\ UNCHANGED <<error, pending, yielded, tlog, sendFailed, walkFailAt, ev>>
       ELSE \/ /\ pending # {}
               /\ LET oid == NewestOf(pending)
                  IN /\ pending' = pending \ {oid}
                     /\ yielded' = Append(yielded, oid)
                     /\ tlog' = SendLog(tlog, "send_have", <<oid>>)
               /\ \E ok \in BOOLEAN : sendFailed' = (sendFailed \/ ~ok)
               /\ error' = GIT_SUCCESS
               /\ UNCHANGED <<pc, walkFailAt, ev>>
            \/ /\ pending = {}
               /\ error' = GIT_EREVWALKOVER
               /\ ev' = ev \cup {"walk_over"}
               /\ pc' = "neg_flush"
               /\ UNCHANGED <<pending, yielded, tlog, sendFailed, walkFailAt>>
            \/ /\ \E e \in FailCodes : error' = e
               /\ walkFailAt' = Len(tlog)
               /\ ev' = ev \cup {"walk_err"}
               /\ pc' = "neg_flush"
               /\ UNCHANGED <<pending, yielded, tlog, sendFailed>>
    /\ UNCHANGED <<heads, store, hasSpec, remote_refs, i, list, ret, strs, walk,
                   created, released, entryRefs, wantHist, haveHist, pushed, entryHeads>>

\* done is sent before flush
FlushDoneLog_Swapped(log) ==
    SendLog(SendLog(log, "send_done", <<>>), "send_flush", <<>>)

\* fetch.c:194-195: git_transport_send_flush, then git_transport_send_done
FlushDoneLog(log) ==
    SendLog(SendLog(log, "send_flush", <<>>), "send_done", <<>>)

\* fetch.c:190-195: translate exhaustion, send_flush, send_done
Neg_FlushDone ==
    /\ pc = "neg_flush"
    /\ error' = TranslateOver(error)
    /\ tlog' = FlushDoneLog(tlog)
    /\ \E ok \in BOOLEAN : sendFailed' = (sendFailed \/ ~ok)
    /\ pc' = "neg_cleanup"
    /\ UNCHANGED <<heads, store, hasSpec, remote_refs, i, list, ret, strs, walk,
                   pending, created, released, entryRefs,
                   wantHist, haveHist, yielded, pushed, walkFailAt, ev, entryHeads>>

\* fetch.c:197-199: cleanup: git_revwalk_free(walk); return error
Neg_Cleanup ==
    /\ pc = "neg_cleanup"
    /\ walk' = CleanupWalk(walk)
    /\ released' = released + 1
    /\ pc' = "returned"
    /\ ret' = error
    /\ haveHist' = RecordHaves(haveHist, HaveArgs(tlog), ev)
    /\ UNCHANGED <<heads, store, hasSpec, remote_refs, i, list, error, strs,
                   pending, created, tlog, sendFailed, entryRefs,
                   wantHist, yielded, pushed, walkFailAt, ev, entryHeads>>

Next ==
    \/ Call
    \/ FW_VectorInit
    \/ FW_TransportLs
    \/ FW_Fetchspec
    \/ FW_Head
    \/ FW_Finish
    \/ FW_Cleanup
    \/ Neg_CheckFilter
    \/ Neg_ListAll
    \/ Neg_RevwalkNew
    \/ Neg_Seed
    \/ Neg_WalkNext
    \/ Neg_FlushDone
    \/ Neg_Cleanup

Spec == Init /\ [][Next]_vars

\* ------------------------------------------------------------ properties
OpIdx(op) == {k \in 1..Len(tlog) : tlog[k].op = op}

OnlyLs(log) == \A k \in 1..Len(log) : log[k].op = "ls"

InWants(k) == \E j \in 1..Len(remote_refs) : remote_refs[j] = k

Matched(h) == git_refspec_src_match(h.name) = GIT_SUCCESS

LocalNameOf(h) == git_refspec_transform(LocalBufSize, h.name).local

LocalFound(h) == LocalNameOf(h) \in DOMAIN store /\ store[LocalNameOf(h)] # NoRef

LocalHasEqual(h) == LocalFound(h) /\ store[LocalNameOf(h)] = h.oid

\* a head this call of filter_wants has marked as a want
AcceptedNow(k) == heads[k].type = GIT_WHN_WANT /\ entryHeads[k].type = GIT_WHN_NONE

FilterSucceeded == pc = "neg_filtered" /\ "filter_ok" \in ev

FilterExitPcs == {"fw_cleanup", "neg_filtered", "returned"}

NegotiatingPcs == {"neg_listall", "neg_new", "neg_seed", "neg_walk", "neg_flush", "neg_cleanup"}

\* C1: when filter_wants succeeds, a head is in remote->refs iff its name
\* matches the refspec and the local ref of the transformed name does not exist
\* with the head's oid; a local ref that is not found makes the head wanted.
C1_WantIff ==
    FilterSucceeded =>
        /\ error = GIT_SUCCESS
        /\ \A k \in 1..Len(heads) :
             InWants(k) <=> (Matched(heads[k]) /\ ~LocalHasEqual(heads[k]))

C1_Witness ==
    /\ FilterSucceeded
    /\ \E k \in 1..Len(heads) : InWants(k) /\ ~LocalFound(heads[k])
    /\ \E k \in 1..Len(heads) : ~InWants(k) /\ Matched(heads[k])

\* C2: an empty want list makes git_fetch_negotiate return success with no
\* transport call but the listing, and no walker.
C2_EmptyWantsNoIO ==
    ("filter_ok" \in ev /\ remote_refs = <<>>) =>
        /\ pc \in {"neg_filtered", "returned"}
        /\ OnlyLs(tlog)
        /\ created = 0
        /\ released = 0
        /\ walk = "uninit"
        /\ (pc = "returned" => ret = GIT_SUCCESS)

C2_Witness ==
    /\ pc = "returned"
    /\ "filter_ok" \in ev
    /\ remote_refs = <<>>
    /\ \E k \in 1..Len(heads) : Matched(heads[k]) /\ LocalHasEqual(heads[k])

\* C3: the want list goes out in one send_wants call that carries the whole
\* filtered list, and every send_have comes after it.
C3_WantsOnceBeforeHaves ==
    /\ Cardinality(OpIdx("send_wants")) <= 1
    /\ \A w \in OpIdx("send_wants") : tlog[w].arg = remote_refs /\ remote_refs # <<>>
    /\ \A h \in OpIdx("send_have") : \E w \in OpIdx("send_wants") : w < h
    /\ (pc \in NegotiatingPcs => Cardinality(OpIdx("send_wants")) = 1)
    /\ (pc = "returned" /\ "filter_ok" \in ev /\ remote_refs # <<>>
            => Cardinality(OpIdx("send_wants")) = 1)

C3_Witness ==
    /\ pc = "returned"
    /\ Len(remote_refs) = 2
    /\ Cardinality(OpIdx("send_have")) >= 1

\* C4: after git_revwalk_next has failed, no transport call is made (stated
\* for the runs in which nothing else fails).
C4_NoSendAfterWalkerFailure ==
    (walkFailAt # -1 /\ ev = {"filter_ok", "walk_err"} /\ ~sendFailed)
        => Len(tlog) = walkFailAt

\* C5: a walker git_fetch_negotiate has created is released exactly once
\* before it returns, on the failing paths as on the normal one.
C5_WalkerReleasedOnce ==
    /\ created <= 1
    /\ (created = 1 => released <= 1)
    /\ (pc = "returned" /\ created = 1 => walk = "freed" /\ released = 1)

C5_Witness ==
    /\ pc = "returned"
    /\ created = 1
    /\ ret < GIT_SUCCESS
    /\ ev \cap {"seed_lookup_err", "push_err", "walk_err"} # {}

\* C6: when a transport send has failed, git_fetch_negotiate returns an error
\* (stated for the runs in which nothing but the send fails).
C6_TransportFailureFatal ==
    (pc = "returned" /\ sendFailed /\ ev \ {"walk_over"} = {"filter_ok"})
        => ret < GIT_SUCCESS

\* C7 as stated: with no fetch refspec the failure is decided before the
\* advertisement is requested from the transport.
C7_FailsBeforeListing ==
    "no_spec" \in ev => (OpIdx("ls") = {} /\ heads = entryHeads /\ OnlyLs(tlog))

\* C7 amended: with no fetch refspec filter_wants fails after the listing has
\* been requested (the one transport call made) and before any head is examined
\* or modified: with GIT_ERROR when the listing succeeded, with the earlier
\* error otherwise; negotiation sends nothing.
C7_NoSpecFailsBeforeHeads ==
    /\ "no_spec" \in ev =>
          /\ tlog = <<[op |-> "ls", arg |-> <<>>]>>
          /\ error = GIT_ERROR
          /\ (pc = "returned" => ret = GIT_ERROR)
    /\ ~hasSpec =>
          /\ pc \in {"idle", "fw_init", "fw_ls", "fw_spec"} \cup FilterExitPcs
          /\ heads = entryHeads
          /\ i = 0
          /\ list = <<>>
          /\ remote_refs = entryRefs
          /\ OnlyLs(tlog)
          /\ Len(tlog) <= 1
          /\ created = 0
          /\ (pc = "returned" => ret < GIT_SUCCESS)

C7_Witness ==
    /\ pc = "returned"
    /\ "no_spec" \in ev
    /\ Len(heads) >= 1
    /\ Len(tlog) = 1

\* C8: when the transform of a matched head's name overflows the buffer,
\* git_fetch_negotiate fails and sends no wants, haves, flush or done,
\* whatever heads came before.
C8_TransformOverflowSendsNothing ==
    "transform_err" \in ev =>
        /\ pc \in FilterExitPcs
        /\ OnlyLs(tlog)
        /\ created = 0
        /\ error = GIT_EINVALIDREFNAME
        /\ remote_refs = entryRefs
        /\ (pc = "returned" => ret = GIT_EINVALIDREFNAME)

C8_Witness ==
    /\ pc = "returned"
    /\ "transform_err" \in ev
    /\ \E k \in 1..Len(heads) : AcceptedNow(k)

\* C9: when a local ref lookup of filter_wants fails with anything but
\* not-found, filter_wants returns that error and the remote's ref list is
\* what it was at the call, even if heads had been accepted before.
C9_LookupErrorNoPartialList ==
    "lookup_err" \in ev =>
        /\ pc \in FilterExitPcs
        /\ error \in FailCodes
        /\ remote_refs = entryRefs
        /\ (pc # "fw_cleanup" => list = <<>>)
        /\ OnlyLs(tlog)
        /\ (pc = "returned" => ret = error)

C9_Witness ==
    /\ pc = "returned"
    /\ "lookup_err" \in ev
    /\ \E k \in 1..Len(heads) : AcceptedNow(k)

\* C10: two successful runs of filter_wants on the same advertisement and the
\* same local refs give the same want list: the same heads, with the same
\* fields, in the same order.
C10_FilterIdempotent ==
    Len(wantHist) = 2 => wantHist[1] = wantHist[2]

C10_Witness ==
    /\ FilterSucceeded
    /\ Len(wantHist) = 2
    /\ Len(wantHist[1]) = 2
    /\ \E k \in 1..2 : wantHist[1][k].local = 1

\* the targets of all local refs, in the order git_reference_listall names them
AllLocalTargets ==
    LET names == git_reference_listall(store)
    IN [k \in 1..Len(names) |-> store[names[k]]]

\* git_revwalk_next has been called in this call of git_fetch_negotiate
WalkStarted == yielded # <<>> \/ "walk_over" \in ev \/ "walk_err" \in ev

\* C11: with the local refs fixed and the walker deterministic, two calls of
\* git_fetch_negotiate in which no step fails send the same have identifiers,
\* in the same order and number.
C11_HavesDeterministic ==
    Len(haveHist) = 2 => haveHist[1] = haveHist[2]

C11_Witness ==
    /\ pc = "returned"
    /\ Len(haveHist) = 2
    /\ Len(haveHist[1]) >= 2
    /\ HaveArgs(tlog) = haveHist[1]

\* C12: no step of filter_wants or git_fetch_negotiate, on a successful or a
\* failing path, changes the local refs: their names and their targets.
C12_StoreUnchanged == [][store' = store]_vars

C12_Witness ==
    /\ pc = "returned"
    /\ "filter_ok" \in ev
    /\ yielded # <<>>
    /\ \E k \in 1..Len(heads) : InWants(k) /\ LocalFound(heads[k])

\* C13: while the walker is seeded, a failed lookup or push, whatever its
\* code, makes git_fetch_negotiate abort with an error, send no have, flush or
\* done, and release the walker (stated for the runs in which nothing else
\* fails).
C13_SeedFailureFatal ==
    (ev \cap {"seed_lookup_err", "push_err"} # {}
        /\ ev \subseteq {"filter_ok", "seed_lookup_err", "push_err", "walk_over"})
      => /\ pc \in {"neg_cleanup", "returned"}
         /\ OpIdx("send_have") = {}
         /\ OpIdx("send_flush") = {}
         /\ OpIdx("send_done") = {}
         /\ (pc = "returned" => ret < GIT_SUCCESS /\ walk = "freed")

\* C14: the want list keeps the order of the advertisement, and holds no head
\* twice.
C14_AdvertisementOrder ==
    FilterSucceeded =>
        \A j, k \in 1..Len(remote_refs) : j < k => remote_refs[j] < remote_refs[k]

C14_Witness ==
    /\ FilterSucceeded
    /\ Len(remote_refs) = 2
    /\ heads[remote_refs[1]].oid # heads[remote_refs[2]].oid

\* C15: when the walker is exhausted, git_fetch_negotiate returns success, and
\* it never returns the exhaustion sentinel.
C15_ExhaustionIsSuccess ==
    /\ pc = "returned" => ret # GIT_EREVWALKOVER
    /\ (pc \in {"neg_cleanup", "returned"} /\ "walk_over" \in ev) => error = GIT_SUCCESS
    /\ (pc = "returned" /\ "walk_over" \in ev) => ret = GIT_SUCCESS

C15_Witness ==
    /\ pc = "returned"
    /\ "walk_over" \in ev
    /\ yielded # <<>>
    /\ ret = GIT_SUCCESS

\* C16: when the walker has been drained to exhaustion, one send_flush and
\* then one send_done have been issued, after the last send_have, flush
\* first; no send_have follows a flush.
C16_FlushThenDone ==
    /\ Cardinality(OpIdx("send_flush")) <= 1
    /\ Cardinality(OpIdx("send_done")) <= 1
    /\ \A f \in OpIdx("send_flush") : \A h \in OpIdx("send_have") : h < f
    /\ \A d \in OpIdx("send_done") : \E f \in OpIdx("send_flush") : f < d
    /\ (pc \in {"neg_cleanup", "returned"} /\ "walk_over" \in ev) =>
          /\ Len(tlog) >= 2
          /\ tlog[Len(tlog) - 1].op = "send_flush"
          /\ tlog[Len(tlog)].op = "send_done"

C16_Witness ==
    /\ pc = "returned"
    /\ "walk_over" \in ev
    /\ Len(yielded) >= 2
    /\ tlog[Len(tlog)].op = "send_done"

\* C17: the haves sent are what the walker yielded, one send_have per
\* identifier and in its order, and the walker had been seeded with the
\* target of every local ref before its first next (stated for the runs in
\* which nothing but a push fails).
C17_HavesAreWalkOfAllRefs ==
    (ev \subseteq {"filter_ok", "push_err", "walk_over"}) =>
        /\ HaveArgs(tlog) = yielded
        /\ WalkStarted => pushed = AllLocalTargets

\* C18: after a successful filter_wants every head of the want list is
\* classified want; one whose local ref exists has local set and loid equal
\* to that ref's target; one with no local ref keeps local and loid.
C18_WantedHeadFields ==
    FilterSucceeded =>
        \A k \in 1..Len(heads) :
            InWants(k) =>
                /\ heads[k].type = GIT_WHN_WANT
                /\ LocalFound(heads[k]) =>
                      /\ heads[k].local = 1
                      /\ heads[k].loid = store[LocalNameOf(heads[k])]
                      /\ heads[k].loid # heads[k].oid
                /\ ~LocalFound(heads[k]) =>
                      /\ heads[k].local = entryHeads[k].local
                      /\ heads[k].loid = entryHeads[k].loid

C18_Witness ==
    /\ FilterSucceeded
    /\ \E k \in 1..Len(heads) : InWants(k) /\ LocalFound(heads[k]) /\ AcceptedNow(k)
    /\ \E k \in 1..Len(heads) : InWants(k) /\ ~LocalFound(heads[k])

\* C19: a walker is released only if it was created: when git_revwalk_new
\* fails nothing is released, and the releases never outnumber the creations
\* (stated for the runs in which nothing else fails).
C19_ReleaseOnlyCreated ==
    (ev \subseteq {"filter_ok", "new_err"}) => (released <= created /\ walk # "badfree")

\* C20: a head filter_wants does not select, because it does not match the
\* refspec or because its local ref has the same target, keeps its name, oid,
\* local flag, local oid and classification.
C20_UnselectedHeadsUntouched ==
    \A k \in 1..Len(heads) :
        (~Matched(heads[k]) \/ LocalHasEqual(heads[k])) => heads[k] = entryHeads[k]

C20_Witness ==
    /\ FilterSucceeded
    /\ \E k \in 1..Len(heads) : ~Matched(heads[k])
    /\ \E k \in 1..Len(heads) : Matched(heads[k]) /\ LocalHasEqual(heads[k])
====
